---- MODULE Spec2Model ----
(***************************************************************************)
(* Model of src/main.ts: the paginated crawl of a tournament's match       *)
(* lobbies, the since-watermark classification, the pause key, the three   *)
(* report sinks (console, "new" file, "all" file) and the exitHandler      *)
(* teardown of the browser resources.                                      *)
(*                                                                         *)
(* The crawl is one async function.  Its position pc names the await it is *)
(* suspended at; every crawl action is the resumption from one await and   *)
(* runs, as JavaScript does, without interruption up to the next await.    *)
(* Key presses, signals and exitHandler continuations are separate         *)
(* actions that interleave with the crawl only at those awaits.            *)
(*                                                                         *)
(* Instants are milliseconds-since-epoch numbers, here small naturals.     *)
(* The console variable holds the lines of the lobby report only (the      *)
(* banners "Page count", "Checking page", "Paused." are not recorded).     *)
(***************************************************************************)
EXTENDS Integers, Sequences, FiniteSets, TLC

VARIABLES
  argv,             \* parsed options: newMsgOutputFile, allMsgOutputFile, pauseOnNewMessagesFor
  sinceDatetime,    \* <<>> for null (no --since), <<t>> for new Date(argv.since)
  paused,           \* state.paused
  browserPages,     \* state.browserPages
  res,              \* open / closing / closed, of the page, the context and the browser
  closeCalls,       \* number of close() calls made on each resource
  handlers,         \* the exitHandler invocations, in the order they were started
  procState,        \* running / exited (the node process)
  pc,               \* the await the crawl is suspended at
  i,                \* page loop counter
  maxPageNo,
  pageLinks,        \* the numbers +el.textContent of the pagination links read on page 1
  hrefs,            \* $l.href of the match links of the current listing page
  matches,          \* matches of the current listing page
  matchIdx,         \* position of `match` in matches
  dom,              \* the message groups of the lobby page as loaded: per message, whether its time is shown
  domOps,           \* the clicks and the reads of the time made by the extraction of that lobby
  messageGroups,    \* result of visitLobby for the current match
  hasNewMessages,
  allMessages,      \* every messageGroups value so far, in visit order
  navs,             \* the page.goto calls of the crawl loop, in order
  console,          \* lobby report lines printed with console.log
  newFile,          \* lines written through fdNewMessages
  allFile,          \* lines written through fdAllMessages
  fdNewMessages,    \* unset / null / open / closed
  fdAllMessages,
  fsLog             \* per sink, the fs calls made on it: open, write, close

vars == <<argv, sinceDatetime, paused, browserPages, res, closeCalls, handlers,
          procState, pc, i, maxPageNo, pageLinks, hrefs, matches, matchIdx,
          dom, domOps, messageGroups,
          hasNewMessages, allMessages, navs, console, newFile, allFile,
          fdNewMessages, fdAllMessages, fsLog>>

----------------------------------------------------------------------------
(* Bounds of the model *)

MaxPages == 2      \* largest page number a pagination link shows
MaxMatches == 2    \* most match links on one listing page
MaxLobbies == 3    \* most matches of the whole tournament
MaxGroups == 2     \* most message groups of a lobby (classifier inputs)
MaxMsgs == 2       \* most messages of a group (classifier inputs)
MaxTime == 1       \* latest instant
MaxHandlers == 1   \* most termination events delivered from outside
MaxTermLobbies == 2 \* most matches of the tournament in the runs with signals
MaxLinks == 4      \* most pagination links on page 1 (page-count inputs)
MaxCloseFailures == 1 \* most close() calls of the teardown that fail
MaxTeardownLobbies == 0 \* most matches of the tournament in the runs of the teardown
MaxQuery == 2      \* most characters of a match link after its path (href inputs)

MsPerMinute == 60000

firstPageNo == 1

SeqsUpTo(S, n) == UNION {[1..m -> S] : m \in 0..n}

Times == 0..MaxTime

\* the { message, date } objects, the { author, messages } groups
Messages == {[message |-> 0, date |-> t] : t \in Times}
Msg(t) == [message |-> 0, date |-> t]
Group(a, ts) == [author |-> a, messages |-> [j \in 1..Len(ts) |-> Msg(ts[j])]]
Groups == {[author |-> 1, messages |-> ms] : ms \in SeqsUpTo(Messages, MaxMsgs)}
AllLobbies == SeqsUpTo(Groups, MaxGroups)

\* the lobbies the crawl meets: empty, one old message, an old group followed
\* by a group with a message at the latest instant
CrawlLobbies ==
  { <<>>,
    <<Group(1, <<0>>)>>,
    <<Group(1, <<0>>), Group(2, <<MaxTime>>)>> }

\* the lobbies of the runs with signals
TermLobbies == { <<>>, <<Group(1, <<0>>)>> }

\* the .message-group elements of a lobby page that give the lobby `groups`,
\* every time element shown or every one hidden
DomOf(groups, shown) ==
  [g \in 1..Len(groups) |->
     [author |-> groups[g].author,
      messages |-> [m \in 1..Len(groups[g].messages) |->
                      [message |-> groups[g].messages[m].message,
                       shown |-> shown,
                       datetime |-> groups[g].messages[m].date]]]]

Hidden(lobbies) == {DomOf(groups, FALSE) : groups \in lobbies}

\* the lobby pages of at most MaxGroups groups of at most MaxMsgs messages,
\* each message with its time shown or hidden; neighbours differ in their time
DomMessages(m) == {[message |-> 0, shown |-> s, datetime |-> m % (MaxTime + 1)] : s \in BOOLEAN}
DomGroups ==
  UNION {{[author |-> 1, messages |-> ms] :
            ms \in {f \in [1..k -> UNION {DomMessages(m) : m \in 1..MaxMsgs}] :
                      \A m \in 1..k : f[m] \in DomMessages(m)}} : k \in 0..MaxMsgs}
AllDoms == SeqsUpTo(DomGroups, MaxGroups)

\* the opponent names of a match link
Players == <<1, 2>>

Resources == {"page", "context", "browser"}
Signals == {"SIGINT", "SIGUSR1", "SIGUSR2"}
\* what +el.textContent gives for a text that is not a number
NaN == -1

\* the numbers read from the pagination links: a page number or NaN
LinkNumbers == {NaN} \cup (1..MaxPages)
AllLinks == SeqsUpTo(LinkNumbers, MaxLinks)

\* the pagination links the crawl meets: none, or "1" and the last page number
CrawlLinks == {<<>>} \cup {<<1, p>> : p \in 2..MaxPages}

\* an href is a sequence of characters: the numbers from 1 on are the
\* characters of the path, QueryMark is '?'
QueryMark == 0

\* what follows the path in the hrefs the crawl meets: "?1"
CrawlQueries == {<<QueryMark, 1>>}

\* every tail of at most MaxQuery characters: with and without a '?'
AllQueries == SeqsUpTo({QueryMark, 1}, MaxQuery)

PageOps == {"gotoPage", "evalMaxPage", "evalMatches", "gotoLobby", "waitLoader", "evalGroups"}

----------------------------------------------------------------------------
(* Pure helpers *)

\* ToNumber of the right operand of `m.date >= sinceDatetime`: null is 0
ToNumber(d) == IF d = <<>> THEN 0 ELSE d[1]

\* mutant: the comparison written > instead of >=
MessageIsNewStrict(m, since) == m.date > ToNumber(since)

MessageIsNew(m, since) == m.date >= ToNumber(since)

\* main.ts:210
HasNewMessages(groups, since) ==
  \E g \in 1..Len(groups) :
    \E m \in 1..Len(groups[g].messages) : MessageIsNew(groups[g].messages[m], since)

\* main.ts:229: toISOString() cut to the minute
DateLine(t) == t \div MsPerMinute

\* the comparator (a, b) => b - a as sort uses it: a NaN result counts as 0
SortCompare(a, b) == IF a = NaN \/ b = NaN THEN 0 ELSE b - a

\* Array.prototype.sort of the engine the callback runs in, for an array
\* shorter than 64: the leading run is found (and reversed when strictly
\* descending for the comparator), the rest is inserted by binary search.
RECURSIVE RunEnd(_, _, _)
RunEnd(w, descending, idx) ==
  IF idx > Len(w) THEN idx - 1
  ELSE LET order == SortCompare(w[idx], w[idx - 1])
       IN  IF (descending /\ order >= 0) \/ (~descending /\ order < 0)
           THEN idx - 1
           ELSE RunEnd(w, descending, idx + 1)

Reverse(w) == [j \in 1..Len(w) |-> w[Len(w) + 1 - j]]

\* position (counted from 0) where pivot goes among the first `right` elements
RECURSIVE InsertionPoint(_, _, _, _)
InsertionPoint(w, pivot, left, right) ==
  IF left >= right THEN left
  ELSE LET mid == left + ((right - left) \div 2)
       IN  IF SortCompare(pivot, w[mid + 1]) < 0
           THEN InsertionPoint(w, pivot, left, mid)
           ELSE InsertionPoint(w, pivot, mid + 1, right)

\* the elements from position start (counted from 0) on are inserted one by one
RECURSIVE BinaryInsertionSort(_, _)
BinaryInsertionSort(w, start) ==
  IF start >= Len(w) THEN w
  ELSE LET pivot == w[start + 1]
           left == InsertionPoint(w, pivot, 0, start)
       IN  BinaryInsertionSort(
             SubSeq(w, 1, left) \o <<pivot>> \o SubSeq(w, left + 1, start)
               \o SubSeq(w, start + 2, Len(w)),
             start + 1)

Sort(w) ==
  IF Len(w) < 2 THEN w
  ELSE LET descending == SortCompare(w[2], w[1]) < 0
           run == RunEnd(w, descending, 3)
           made == IF descending
                   THEN Reverse(SubSeq(w, 1, run)) \o SubSeq(w, run + 1, Len(w))
                   ELSE w
       IN  BinaryInsertionSort(made, run)

\* main.ts:184-186: [1, ...numbers].sort((a, b) => b - a)[0]
MaxPageOf(links) == Sort(<<1>> \o links)[1]

\* String.prototype.indexOf: the first position (from 0) of ch, -1 when absent
IndexOf(str, ch) ==
  IF \E k \in 1..Len(str) : str[k] = ch
  THEN (CHOOSE k \in 1..Len(str) : str[k] = ch /\ \A m \in 1..(k - 1) : str[m] # ch) - 1
  ELSE -1

\* an argument of substring: below 0 is 0, above the length is the length
Clamp(str, k) == IF k < 0 THEN 0 ELSE IF k > Len(str) THEN Len(str) ELSE k

\* String.prototype.substring(start, end): the arguments are swapped when start > end
Substring(str, start, end) ==
  LET a == Clamp(str, start)
      b == Clamp(str, end)
  IN  IF a <= b THEN SubSeq(str, a + 1, b) ELSE SubSeq(str, b + 1, a)

\* main.ts:197: $l.href.substring(0, $l.href.indexOf('?'))
Url(href) == Substring(href, 0, IndexOf(href, QueryMark))

\* main.ts:117-127, one .message element: the click when no time is shown,
\* then the read of the datetime attribute
DomOp(g, m, op) == [group |-> g, msg |-> m, op |-> op]

\* mutant: the click made on every message
ExtractMessageClicksAlways(g, m, el) ==
  [result |-> [message |-> el.message, date |-> el.datetime],
   ops |-> <<DomOp(g, m, "click"), DomOp(g, m, "read")>>]

ExtractMessage(g, m, el) ==
  [result |-> [message |-> el.message, date |-> el.datetime],
   ops |-> (IF ~el.shown THEN <<DomOp(g, m, "click")>> ELSE <<>>)
             \o <<DomOp(g, m, "read")>>]

Line(n, kind, val) == [lobby |-> n, kind |-> kind, val |-> val]

RECURSIVE Flatten(_)
Flatten(ss) == IF ss = <<>> THEN <<>> ELSE Head(ss) \o Flatten(Tail(ss))

\* main.ts:231 / 238: toFile(fd, `  ${date}`, `  ${msg.message}`, '')
MsgLines(n, m) ==
  << Line(n, "date", <<DateLine(m.date)>>), Line(n, "text", <<m.message>>), Line(n, "blank", <<>>) >>

\* main.ts:222 / 225 and the message loop
GroupLines(n, g) ==
  <<Line(n, "author", <<g.author>>)>>
    \o Flatten([j \in 1..Len(g.messages) |-> MsgLines(n, g.messages[j])])

\* main.ts:115-130: one .message-group element
ExtractGroup(g, el) ==
  [result |-> [author |-> el.author,
               messages |-> [m \in 1..Len(el.messages) |->
                               ExtractMessage(g, m, el.messages[m]).result]],
   ops |-> Flatten([m \in 1..Len(el.messages) |-> ExtractMessage(g, m, el.messages[m]).ops])]

\* main.ts:114-133: the reduce over the .message-group elements
ExtractLobby(els) ==
  [groups |-> [g \in 1..Len(els) |-> ExtractGroup(g, els[g]).result],
   ops |-> Flatten([g \in 1..Len(els) |-> ExtractGroup(g, els[g]).ops])]

\* main.ts:213 / 218: toFile(fd, str, match.url)
HeaderLines(n, match) ==
  << Line(n, "header", match.players), Line(n, "url", match.url) >>

\* lines of the report up to the trailer, as written to a file sink
BodyLines(n, match, groups) ==
  HeaderLines(n, match) \o Flatten([j \in 1..Len(groups) |-> GroupLines(n, groups[j])])

----------------------------------------------------------------------------
(* The browser resources (playwright Page, BrowserContext, Browser) *)

\* a close() call: the resource starts closing, the call is counted
CallClose(c, r) ==
  [c EXCEPT !.closeCalls[r] = @ + 1,
            !.res[r] = IF @ = "open" THEN "closing" ELSE @]

\* the awaited close() of r resolves: r is closed, and with it what it owns
Owned(r) ==
  CASE r = "page" -> {"page"}
    [] r = "context" -> {"page", "context"}
    [] r = "browser" -> {"page", "context", "browser"}

Closed(rs, r) == [x \in Resources |-> IF x \in Owned(r) THEN "closed" ELSE rs[x]]

----------------------------------------------------------------------------
(* The crawl: main.ts:167-273.  Cur is the part of the state the crawl      *)
(* writes; each operator below takes such a record and returns the record  *)
(* after one synchronous stretch of the loop.                              *)

Cur ==
  [pc |-> pc, i |-> i, maxPageNo |-> maxPageNo, pageLinks |-> pageLinks, matches |-> matches,
   hrefs |-> hrefs,
   matchIdx |-> matchIdx, navs |-> navs, console |-> console,
   newFile |-> newFile, allFile |-> allFile,
   fdNewMessages |-> fdNewMessages, fdAllMessages |-> fdAllMessages,
   fsLog |-> fsLog, res |-> res, closeCalls |-> closeCalls]

Set(c) ==
  /\ pc' = c.pc /\ i' = c.i /\ maxPageNo' = c.maxPageNo /\ matches' = c.matches
  /\ pageLinks' = c.pageLinks /\ hrefs' = c.hrefs
  /\ matchIdx' = c.matchIdx /\ navs' = c.navs /\ console' = c.console
  /\ newFile' = c.newFile /\ allFile' = c.allFile
  /\ fdNewMessages' = c.fdNewMessages /\ fdAllMessages' = c.fdAllMessages
  /\ fsLog' = c.fsLog /\ res' = c.res /\ closeCalls' = c.closeCalls

\* the fs calls made on one sink, a run of writes kept as one entry
Logged(log, call) ==
  IF call = "write" /\ log # <<>> /\ log[Len(log)] = "write" THEN log ELSE Append(log, call)

\* `fd && toFile(fd, ...lines)` on the "all" file, main.ts:299-306: nothing
\* when the descriptor is null
ToAllFile(c, lines) ==
  IF c.fdAllMessages = "null" THEN c
  ELSE [c EXCEPT !.allFile = @ \o lines, !.fsLog["all"] = Logged(@, "write")]

\* the same on the "new" file
ToNewFile(c, lines) ==
  IF c.fdNewMessages = "null" THEN c
  ELSE [c EXCEPT !.newFile = @ \o lines, !.fsLog["new"] = Logged(@, "write")]

\* console.log of the report lines
ToConsole(c, lines) == [c EXCEPT !.console = @ \o lines]

\* page.goto(target): on a closed page, and for the target "lobby" (an empty
\* match url, not a URL), the call is rejected without navigating
CallGoto(c, target, at) ==
  IF c.res["page"] = "closed" \/ target = <<"lobby">>
  THEN [c EXCEPT !.pc = "rejected"]
  ELSE [c EXCEPT !.pc = at, !.navs = Append(@, target)]

\* main.ts:171-172
OpenSink(c, wanted, sink) ==
  IF wanted THEN [c EXCEPT !.fsLog[sink] = Logged(@, "open")] ELSE c

OpenSinks(c) ==
  LET c1 == OpenSink(c, argv.newMsgOutputFile, "new")
      c2 == OpenSink(c1, argv.allMsgOutputFile, "all")
  IN  [c2 EXCEPT !.fdNewMessages = IF argv.newMsgOutputFile THEN "open" ELSE "null",
                 !.fdAllMessages = IF argv.allMsgOutputFile THEN "open" ELSE "null"]

\* main.ts:261-267
CloseSink(c, fd, sink) ==
  IF fd # "null" THEN [c EXCEPT !.fsLog[sink] = Logged(@, "close")] ELSE c

\* mutant: the close of the "all" file left out
CloseSinksNewOnly(c) ==
  LET c1 == CloseSink(c, c.fdNewMessages, "new")
  IN  [c1 EXCEPT !.fdNewMessages = IF @ # "null" THEN "closed" ELSE @]

CloseSinks(c) ==
  LET c1 == CloseSink(c, c.fdNewMessages, "new")
      c2 == CloseSink(c1, c.fdAllMessages, "all")
  IN  [c2 EXCEPT !.fdNewMessages = IF @ # "null" THEN "closed" ELSE @,
                 !.fdAllMessages = IF @ # "null" THEN "closed" ELSE @]

\* main.ts:261-272: after the page loop, up to `await page.close()`
Finish(c) ==
  [CallClose(CloseSinks(c), "page") EXCEPT !.pc = "closePage"]

\* main.ts:174-179: the loop test, the pause loop and the goto of page c.i
PageLoop(c) ==
  IF c.i <= c.maxPageNo
  THEN IF paused
       THEN [c EXCEPT !.pc = "sleepPage"]
       ELSE CallGoto(c, <<"page", c.i>>, "gotoPage")
  ELSE Finish(c)

\* mutant: the pause loop before visitLobby left out
MatchLoopNoPauseLoop(c) ==
  IF c.matchIdx <= Len(c.matches)
  THEN CallGoto(c, <<"lobby">> \o c.matches[c.matchIdx].url, "gotoLobby")
  ELSE PageLoop([c EXCEPT !.i = @ + 1])

\* main.ts:202-207 and 111-112: next match, the pause loop, the goto of its lobby
MatchLoop(c) ==
  IF c.matchIdx <= Len(c.matches)
  THEN IF paused
       THEN [c EXCEPT !.pc = "sleepPre"]
       ELSE CallGoto(c, <<"lobby">> \o c.matches[c.matchIdx].url, "gotoLobby")
  ELSE PageLoop([c EXCEPT !.i = @ + 1])

\* mutant: the loop does not move on to the next match
NextMatchRepeats(c) == MatchLoop(c)

NextMatch(c) == MatchLoop([c EXCEPT !.matchIdx = @ + 1])

\* main.ts:255-257: the pause loop at the end of the match body
PostLoop(c) ==
  IF paused THEN [c EXCEPT !.pc = "sleepPost"] ELSE NextMatch(c)

\* mutant: the blank line that ends the block written to the "all" file only
TrailerAllOnly(c, n, isNew) ==
  LET c1 == ToAllFile(c, <<Line(n, "blank", <<>>)>>)
  IN  IF isNew THEN ToConsole(c1, <<Line(n, "newline", <<>>)>>) ELSE c1

\* main.ts:249-253: the blank line that ends the block
Trailer(c, n, isNew) ==
  LET c1 == ToAllFile(c, <<Line(n, "blank", <<>>)>>)
  IN  IF isNew
      THEN ToNewFile(ToConsole(c1, <<Line(n, "newline", <<>>)>>), <<Line(n, "blank", <<>>)>>)
      ELSE c1

AfterReport(c, n, isNew) == PostLoop(Trailer(c, n, isNew))

\* mutant: the console and the "new" file written without the hasNewMessages test
ReportBodyUnconditional(c, n, match, groups, isNew) ==
  ToNewFile(ToConsole(ToAllFile(c, BodyLines(n, match, groups)),
                      BodyLines(n, match, groups)),
            BodyLines(n, match, groups))

\* main.ts:211-241: header and groups, to the "all" file always and to the
\* console and the "new" file when the lobby has new messages
ReportBody(c, n, match, groups, isNew) ==
  LET c1 == ToAllFile(c, BodyLines(n, match, groups))
  IN  IF isNew
      THEN ToNewFile(ToConsole(c1, BodyLines(n, match, groups)), BodyLines(n, match, groups))
      ELSE c1

\* mutant: no placeholder line
PlaceholderLeftOut(c, n) == c

\* main.ts:243-244
Placeholder(c, n) == ToAllFile(c, <<Line(n, "placeholder", <<>>)>>)

\* mutant: the sleep taken only after a lobby with new messages
ReportSleepsWhenNew(c, n, match, groups, isNew) ==
  LET c1 == ReportBody(c, n, match, groups, isNew)
  IN  IF Len(groups) = 0
      THEN AfterReport(Placeholder(c1, n), n, isNew)
      ELSE IF argv.pauseOnNewMessagesFor /\ isNew
           THEN [c1 EXCEPT !.pc = "sleepNew"]
           ELSE AfterReport(c1, n, isNew)

\* main.ts:210-257 for one lobby, from the result of visitLobby to the next await
Report(c, n, match, groups, isNew) ==
  LET c1 == ReportBody(c, n, match, groups, isNew)
  IN  IF Len(groups) = 0
      THEN AfterReport(Placeholder(c1, n), n, isNew)
      ELSE IF argv.pauseOnNewMessagesFor
           THEN [c1 EXCEPT !.pc = "sleepNew"]
           ELSE AfterReport(c1, n, isNew)

Running == procState = "running"

UNCHANGED_env == UNCHANGED <<argv, sinceDatetime, paused, browserPages, handlers, procState>>
UNCHANGED_lobby == UNCHANGED <<dom, domOps, messageGroups, hasNewMessages, allMessages>>

PageUsable == res["page"] # "closed"

\* main.ts:167-179: open the sinks and enter the page loop
Start ==
  /\ Running /\ pc = "start"
  /\ Set(PageLoop(OpenSinks(Cur)))
  /\ UNCHANGED_env /\ UNCHANGED_lobby

\* sleep(100) of a pause loop is over and state.paused is false again
WakePage ==
  /\ Running /\ pc = "sleepPage" /\ ~paused
  /\ Set(PageLoop(Cur))
  /\ UNCHANGED_env /\ UNCHANGED_lobby

WakePre ==
  /\ Running /\ pc = "sleepPre" /\ ~paused
  /\ Set(MatchLoop(Cur))
  /\ UNCHANGED_env /\ UNCHANGED_lobby

\* mutant: leaving the pause loop skips the match that was waiting
WakePostSkips ==
  /\ Running /\ pc = "sleepPost" /\ ~paused
  /\ Set(NextMatch([Cur EXCEPT !.matchIdx = @ + 1]))
  /\ UNCHANGED_env /\ UNCHANGED_lobby

WakePost ==
  /\ Running /\ pc = "sleepPost" /\ ~paused
  /\ Set(NextMatch(Cur))
  /\ UNCHANGED_env /\ UNCHANGED_lobby

\* mutant: the page count read again on every listing page
PageLoadedCountsAgain ==
  /\ Running /\ pc = "gotoPage" /\ PageUsable
  /\ Set([Cur EXCEPT !.pc = "evalMaxPage"])
  /\ UNCHANGED_env /\ UNCHANGED_lobby

\* main.ts:179-184: the listing page is loaded
PageLoaded ==
  /\ Running /\ pc = "gotoPage" /\ PageUsable
  /\ Set([Cur EXCEPT !.pc = IF i = firstPageNo THEN "evalMaxPage" ELSE "evalMatches"])
  /\ UNCHANGED_env /\ UNCHANGED_lobby

\* main.ts:184-195: the page-number links of page 1 are read
EvalMaxPage(linkLists) ==
  /\ Running /\ pc = "evalMaxPage" /\ PageUsable
  /\ \E links \in linkLists :
       Set([Cur EXCEPT !.pageLinks = links, !.maxPageNo = MaxPageOf(links),
                       !.pc = "evalMatches"])
  /\ UNCHANGED_env /\ UNCHANGED_lobby

\* main.ts:195-207: the match links are read, the match loop starts
EvalMatches(limit, queries) ==
  /\ Running /\ pc = "evalMatches" /\ PageUsable
  /\ \E n \in 0..MaxMatches : \E q \in queries :
       /\ Len(allMessages) + n <= limit
       /\ Set(MatchLoop([Cur EXCEPT
             !.hrefs = [j \in 1..n |-> <<i, j>> \o q],
             !.matches = [j \in 1..n |-> [url |-> Url(<<i, j>> \o q), players |-> Players]],
             !.matchIdx = 1]))
  /\ UNCHANGED_env /\ UNCHANGED_lobby

\* main.ts:112-113
LobbyLoaded ==
  /\ Running /\ pc = "gotoLobby" /\ PageUsable
  /\ Set([Cur EXCEPT !.pc = "waitLoader"])
  /\ UNCHANGED_env /\ UNCHANGED_lobby

\* main.ts:113-114
LoaderDetached ==
  /\ Running /\ pc = "waitLoader" /\ PageUsable
  /\ Set([Cur EXCEPT !.pc = "evalGroups"])
  /\ UNCHANGED_env /\ UNCHANGED_lobby

\* main.ts:114-257: the groups are extracted, classified and reported
EvalGroups(lobbies) ==
  /\ Running /\ pc = "evalGroups" /\ PageUsable
  /\ \E els \in lobbies :
       LET groups == ExtractLobby(els).groups
       IN  /\ dom' = els
           /\ domOps' = ExtractLobby(els).ops
           /\ messageGroups' = groups
           /\ allMessages' = Append(allMessages, groups)
           /\ hasNewMessages' = HasNewMessages(groups, sinceDatetime)
           /\ Set(Report(Cur, Len(allMessages) + 1, matches[matchIdx], groups,
                         HasNewMessages(groups, sinceDatetime)))
  /\ UNCHANGED_env

\* main.ts:246-257: the sleep after a lobby with messages is over
WakeNew ==
  /\ Running /\ pc = "sleepNew"
  /\ Set(AfterReport(Cur, Len(allMessages), hasNewMessages))
  /\ UNCHANGED_env /\ UNCHANGED_lobby

\* main.ts:272: page.close() at the end of the run has resolved
PageClosed ==
  /\ Running /\ pc = "closePage"
  /\ Set([Cur EXCEPT !.pc = "done", !.res = Closed(@, "page")])
  /\ UNCHANGED_env /\ UNCHANGED_lobby

\* an awaited page operation rejects (a timeout, a changed site, a closed page):
\* nothing catches it, the async function ends
PageOpFails ==
  /\ Running /\ pc \in PageOps
  /\ Set([Cur EXCEPT !.pc = "rejected"])
  /\ UNCHANGED_env /\ UNCHANGED_lobby

----------------------------------------------------------------------------
(* exitHandler, main.ts:29-36, and the events it is bound to, main.ts:38-49 *)

Teardown ==
  [browserPages |-> browserPages, res |-> res, closeCalls |-> closeCalls,
   handlers |-> handlers]

SetTeardown(t) ==
  /\ browserPages' = t.browserPages /\ res' = t.res
  /\ closeCalls' = t.closeCalls /\ handlers' = t.handlers

\* main.ts:33-34: the page loop of the handler is over
AfterPages(t, h) ==
  [CallClose([t EXCEPT !.browserPages = <<>>], "context")
     EXCEPT !.handlers[h].at = "context"]

\* mutant: the pages left open, the context closed at once
PagesLoopSkipped(t, h, idx) == AfterPages(t, h)

\* main.ts:30-31: the for-of step at position idx of state.browserPages
PagesLoop(t, h, idx) ==
  IF idx <= Len(t.browserPages)
  THEN [CallClose(t, t.browserPages[idx])
          EXCEPT !.handlers[h].at = "page", !.handlers[h].idx = idx]
  ELSE AfterPages(t, h)

\* what a handler invocation is remembered by: the three signals are bound alike
Kind(ev) == IF ev \in Signals THEN "signal" ELSE ev

\* exitHandler is called for event ev: it runs up to its first await
InvokeExitHandler(t, ev) ==
  PagesLoop([t EXCEPT !.handlers = Append(@, [ev |-> Kind(ev), at |-> "start", idx |-> 0])],
            Len(t.handlers) + 1, 1)

\* the close() awaited by handler h has resolved: up to the next await
ResumeExitHandler(t, h) ==
  LET at == t.handlers[h].at
  IN  CASE at = "page" ->
             PagesLoop([t EXCEPT !.res = Closed(@, "page")], h, t.handlers[h].idx + 1)
        [] at = "context" ->
             [CallClose([t EXCEPT !.res = Closed(@, "context")], "browser")
                EXCEPT !.handlers[h].at = "browser"]
        [] at = "browser" ->
             [t EXCEPT !.res = Closed(@, "browser"), !.handlers[h].at = "done"]

UNCHANGED_crawl ==
  UNCHANGED <<pc, i, maxPageNo, pageLinks, hrefs, matches, matchIdx, dom, domOps,
              messageGroups, hasNewMessages,
              allMessages, navs, console, newFile, allFile, fdNewMessages,
              fdAllMessages, fsLog>>

External == {h \in 1..Len(handlers) : handlers[h].ev \in {"signal", "uncaughtException"}}

\* main.ts:38, 45-49: an uncaught exception or a signal arrives
TerminationEvent ==
  /\ Running /\ Cardinality(External) < MaxHandlers
  /\ \E ev \in {"uncaughtException"} \cup Signals :
       SetTeardown(InvokeExitHandler(Teardown, ev))
  /\ UNCHANGED_crawl
  /\ UNCHANGED <<argv, sinceDatetime, paused, procState>>

\* mutant: the failed operation is caught and the listing page loaded again
UnhandledRejectionRetried ==
  /\ Running /\ pc = "rejected"
  /\ Set(CallGoto(Cur, <<"page", i>>, "gotoPage"))
  /\ UNCHANGED_env /\ UNCHANGED_lobby

\* main.ts:39: the rejection of the crawl's promise is reported to the process
UnhandledRejection ==
  /\ Running /\ pc = "rejected"
  /\ pc' = "crashed"
  /\ SetTeardown(InvokeExitHandler(Teardown, "unhandledRejection"))
  /\ UNCHANGED <<i, maxPageNo, pageLinks, hrefs, matches, matchIdx, dom, domOps,
                 messageGroups, hasNewMessages,
                 allMessages, navs, console, newFile, allFile, fdNewMessages,
                 fdAllMessages, fsLog>>
  /\ UNCHANGED <<argv, sinceDatetime, paused, procState>>

\* a close() awaited by an exitHandler resolves
HandlerStep ==
  /\ Running
  /\ \E h \in 1..Len(handlers) :
       /\ handlers[h].at \in Resources
       /\ SetTeardown(ResumeExitHandler(Teardown, h))
  /\ UNCHANGED_crawl
  /\ UNCHANGED <<argv, sinceDatetime, paused, procState>>

\* a close() awaited by an exitHandler rejects: nothing in exitHandler catches
\* it, the invocation ends there and its promise is rejected; the process
\* reports the rejection (main.ts:39) by calling exitHandler again
CloseFails ==
  /\ Running
  /\ Cardinality({h \in 1..Len(handlers) : handlers[h].at = "failed"}) < MaxCloseFailures
  /\ \E h \in 1..Len(handlers) :
       /\ handlers[h].at \in Resources
       /\ SetTeardown(InvokeExitHandler([Teardown EXCEPT !.handlers[h].at = "failed"],
                                        "unhandledRejection"))
  /\ UNCHANGED_crawl
  /\ UNCHANGED <<argv, sinceDatetime, paused, procState>>

\* main.ts:157-159: the SPACE key
KeySpace ==
  /\ Running
  /\ paused' = ~paused
  /\ UNCHANGED_crawl
  /\ UNCHANGED <<argv, sinceDatetime, browserPages, res, closeCalls, handlers, procState>>

\* main.ts:154-156 and 42: ctrl-c calls process.exit(); the 'exit' listener runs
\* exitHandler up to its first await and the process is gone
KeyCtrlC ==
  /\ Running
  /\ SetTeardown(InvokeExitHandler(Teardown, "exit"))
  /\ procState' = "exited"
  /\ UNCHANGED_crawl
  /\ UNCHANGED <<argv, sinceDatetime, paused>>

----------------------------------------------------------------------------

\* the state when the crawl is about to start (main.ts:167), for the options
\* in argvs and the --since values in sinces
InitWith(argvs, sinces) ==
  /\ argv \in argvs
  /\ sinceDatetime \in sinces
  /\ paused = FALSE
  /\ browserPages = <<"page">>
  /\ res = [r \in Resources |-> "open"]
  /\ closeCalls = [r \in Resources |-> 0]
  /\ handlers = <<>>
  /\ procState = "running"
  /\ pc = "start"
  /\ i = firstPageNo
  /\ maxPageNo = firstPageNo
  /\ pageLinks = <<>>
  /\ hrefs = <<>>
  /\ matches = <<>>
  /\ matchIdx = 0
  /\ dom = <<>>
  /\ domOps = <<>>
  /\ messageGroups = <<>>
  /\ hasNewMessages = FALSE
  /\ allMessages = <<>>
  /\ navs = <<>>
  /\ console = <<>>
  /\ newFile = <<>>
  /\ allFile = <<>>
  /\ fdNewMessages = "unset"
  /\ fdAllMessages = "unset"
  /\ fsLog = [sink \in {"new", "all"} |-> <<>>]

Argvs ==
  [newMsgOutputFile : BOOLEAN, allMsgOutputFile : BOOLEAN,
   pauseOnNewMessagesFor : BOOLEAN]

Crawl(limit, lobbies, linkLists, queries) ==
  \/ Start
  \/ WakePage
  \/ PageLoaded
  \/ EvalMaxPage(linkLists)
  \/ EvalMatches(limit, queries)
  \/ WakePre
  \/ LobbyLoaded
  \/ LoaderDetached
  \/ EvalGroups(lobbies)
  \/ WakeNew
  \/ WakePost
  \/ PageClosed

\* the keys and the failures of page operations, with what they set off
Keyboard ==
  \/ KeySpace
  \/ KeyCtrlC

Failure ==
  \/ PageOpFails
  \/ UnhandledRejection
  \/ HandlerStep

(* Spec: every event, on a tournament of at most MaxTermLobbies matches with *)
(* both report files configured and no --since.                             *)
Init ==
  InitWith({a \in Argvs : a.newMsgOutputFile /\ a.allMsgOutputFile}, {<<>>})

Next ==
  \/ Crawl(MaxTermLobbies, Hidden(TermLobbies), CrawlLinks, CrawlQueries)
  \/ Keyboard
  \/ Failure
  \/ TerminationEvent

Spec == Init /\ [][Next]_vars

(* SpecCrawl: the crawl under every option, the keys and the failures of     *)
(* page operations; no signal or fault arrives from outside.                *)
InitCrawl == InitWith(Argvs, {<<>>, <<MaxTime>>})

NextCrawl ==
  \/ Crawl(MaxLobbies, Hidden(CrawlLobbies), CrawlLinks, CrawlQueries)
  \/ Keyboard
  \/ Failure

SpecCrawl == InitCrawl /\ [][NextCrawl]_vars

(* SpecClassify: the classifier of main.ts:210 applied to every lobby of at  *)
(* most MaxGroups groups of at most MaxMsgs messages, under every watermark. *)
InitClassify ==
  InitWith({a \in Argvs : a.newMsgOutputFile /\ a.allMsgOutputFile /\ ~a.pauseOnNewMessagesFor},
           {<<>>} \cup {<<t>> : t \in Times})

\* one lobby is classified: the find of main.ts:210 on the result of visitLobby
Classify ==
  /\ messageGroups = <<>>
  /\ \E groups \in AllLobbies :
       /\ messageGroups' = groups
       /\ hasNewMessages' = HasNewMessages(groups, sinceDatetime)
  /\ UNCHANGED <<argv, sinceDatetime, paused, browserPages, res, closeCalls, handlers,
                 procState, pc, i, maxPageNo, pageLinks, hrefs, matches, matchIdx,
                 dom, domOps, allMessages, navs,
                 console, newFile, allFile, fdNewMessages, fdAllMessages, fsLog>>

NextClassify == Classify

SpecClassify == InitClassify /\ [][NextClassify]_vars

(* SpecExtract: the extraction of main.ts:114-133, with the classification *)
(* of its result, applied to every lobby page of AllDoms.                   *)
Extract ==
  /\ dom = <<>>
  /\ \E els \in AllDoms :
       /\ dom' = els
       /\ domOps' = ExtractLobby(els).ops
       /\ messageGroups' = ExtractLobby(els).groups
       /\ hasNewMessages' = HasNewMessages(ExtractLobby(els).groups, sinceDatetime)
  /\ UNCHANGED <<argv, sinceDatetime, paused, browserPages, res, closeCalls, handlers,
                 procState, pc, i, maxPageNo, pageLinks, hrefs, matches, matchIdx,
                 allMessages, navs,
                 console, newFile, allFile, fdNewMessages, fdAllMessages, fsLog>>

NextExtract == Extract

SpecExtract == InitClassify /\ [][NextExtract]_vars

(* SpecTeardown: the teardown under every termination event and with       *)
(* failing close() calls, while the crawl goes through the listing pages   *)
(* of a tournament of at most MaxTeardownLobbies matches; no pause key.    *)
NextTeardown ==
  \/ Start
  \/ PageLoaded
  \/ EvalMaxPage(CrawlLinks)
  \/ EvalMatches(MaxTeardownLobbies, CrawlQueries)
  \/ PageClosed
  \/ KeyCtrlC
  \/ Failure
  \/ TerminationEvent
  \/ CloseFails

SpecTeardown == Init /\ [][NextTeardown]_vars

(* SpecPages: the page-count discovery of main.ts:179-188 on page 1, for     *)
(* every list of at most MaxLinks pagination links.                        *)
NextPages ==
  \/ Start
  \/ PageLoaded
  \/ EvalMaxPage(AllLinks)

SpecPages == Init /\ [][NextPages]_vars

(* SpecLinks: the crawl and the pause key, over match links with every tail. *)
NextLinks ==
  \/ Crawl(MaxLobbies, Hidden(CrawlLobbies), CrawlLinks, AllQueries)
  \/ KeySpace

SpecLinks == Init /\ [][NextLinks]_vars

----------------------------------------------------------------------------
(* Vocabulary of the properties *)

IsLobbyNav(x) == x[1] = "lobby"
LobbyNavs == SelectSeq(navs, IsLobbyNav)

Has(f, n) == \E j \in 1..Len(f) : f[j].lobby = n
TagsOf(f) == {f[j].lobby : j \in 1..Len(f)}
Count(f, n, kind) == Cardinality({j \in 1..Len(f) : f[j].lobby = n /\ f[j].kind = kind})
Ordered(f) == \A j \in 1..(Len(f) - 1) : f[j].lobby <= f[j + 1].lobby

\* the n-th visited lobby was classified new
IsNew(n) == HasNewMessages(allMessages[n], sinceDatetime)

\* the report of the n-th visited lobby has been written to its end
Complete(n) == n < Len(allMessages) \/ pc # "sleepNew"

RECURSIVE SumLen(_)
SumLen(gs) == IF gs = <<>> THEN 0 ELSE Len(Head(gs).messages) + SumLen(Tail(gs))

\* the number of messages of the n-th visited lobby
NumMessages(n) == SumLen(allMessages[n])

AllClosed == \A r \in Resources : res[r] = "closed"

----------------------------------------------------------------------------
(* C1: a lobby is classified new exactly when some message of some group   *)
(* has a timestamp at or after the watermark; with no watermark every      *)
(* message counts, and a lobby without messages is never new.              *)
C1_NewIffMessageSinceWatermark ==
  hasNewMessages <=>
    \E g \in 1..Len(messageGroups) :
      \E m \in 1..Len(messageGroups[g].messages) :
        \/ sinceDatetime = <<>>
        \/ messageGroups[g].messages[m].date >= sinceDatetime[1]

\* a watermark is set, the first group has only older messages, the second a new one
C1_Witness ==
  /\ sinceDatetime # <<>>
  /\ hasNewMessages
  /\ Len(messageGroups) = 2
  /\ Len(messageGroups[1].messages) > 0
  /\ \A m \in 1..Len(messageGroups[1].messages) :
       messageGroups[1].messages[m].date < sinceDatetime[1]

(* C2: every reported lobby is in the "all" file when that file is          *)
(* configured; it is on the console, and in the "new" file when that file  *)
(* is configured, exactly when it was classified new; a sink that is not   *)
(* configured receives nothing.                                            *)
C2_Routing ==
  /\ \A n \in 1..Len(allMessages) :
       /\ argv.allMsgOutputFile => Has(allFile, n)
       /\ Has(console, n) <=> IsNew(n)
       /\ argv.newMsgOutputFile => (Has(newFile, n) <=> IsNew(n))
       /\ Complete(n) =>
            /\ argv.allMsgOutputFile => Count(allFile, n, "blank") = NumMessages(n) + 1
            /\ IsNew(n) => Count(console, n, "newline") = 1
            /\ (argv.newMsgOutputFile /\ IsNew(n)) =>
                 Count(newFile, n, "blank") = NumMessages(n) + 1
  /\ ~argv.allMsgOutputFile => allFile = <<>>
  /\ ~argv.newMsgOutputFile => newFile = <<>>

\* both files configured; a lobby with messages that is not new and a new one
C2_Witness ==
  /\ argv.allMsgOutputFile /\ argv.newMsgOutputFile
  /\ \E n \in 1..Len(allMessages) :
       /\ ~IsNew(n) /\ Len(allMessages[n]) > 0 /\ Complete(n)
       /\ Has(allFile, n) /\ ~Has(newFile, n) /\ ~Has(console, n)
  /\ \E n \in 1..Len(allMessages) : IsNew(n) /\ Has(newFile, n) /\ Has(console, n)

(* C3: in every sink the lines of one lobby are contiguous and the lobbies  *)
(* follow each other in crawl order (page, then position on the page);     *)
(* each lobby's header is in a sink once when the lobby applies to it and   *)
(* not at all otherwise; after a whole run every visited lobby is there.    *)
C3_OncePerLobbyInCrawlOrder ==
  /\ Ordered(allFile) /\ Ordered(newFile) /\ Ordered(console)
  /\ \A j \in 1..Len(LobbyNavs) : \A k \in (j + 1)..Len(LobbyNavs) :
       \/ LobbyNavs[j][2] < LobbyNavs[k][2]
       \/ LobbyNavs[j][2] = LobbyNavs[k][2] /\ LobbyNavs[j][3] < LobbyNavs[k][3]
  /\ TagsOf(allFile) \cup TagsOf(newFile) \cup TagsOf(console) \subseteq 1..Len(allMessages)
  /\ Len(allMessages) <= Len(LobbyNavs)
  /\ \A n \in 1..Len(allMessages) :
       /\ Count(allFile, n, "header") = IF argv.allMsgOutputFile THEN 1 ELSE 0
       /\ Count(newFile, n, "header") = IF argv.newMsgOutputFile /\ IsNew(n) THEN 1 ELSE 0
       /\ Count(console, n, "header") = IF IsNew(n) THEN 1 ELSE 0
       /\ \A f \in {allFile, newFile, console} : \A j \in 1..Len(f) :
            (f[j].lobby = n /\ f[j].kind = "url") =>
               f[j].val = <<LobbyNavs[n][2], LobbyNavs[n][3]>>
  /\ pc = "done" => Len(allMessages) = Len(LobbyNavs)

\* a finished run over two pages, two matches on the first, all in the "all" file
C3_Witness ==
  /\ pc = "done"
  /\ Len(allMessages) >= 3
  /\ TagsOf(allFile) = 1..Len(allMessages)
  /\ \E j \in 1..Len(LobbyNavs) : LobbyNavs[j][2] = 1 /\ LobbyNavs[j][3] = 2
  /\ \E j \in 1..Len(LobbyNavs) : LobbyNavs[j][2] = 2
  /\ \E n \in 1..Len(allMessages) : IsNew(n)
  /\ \E n \in 1..Len(allMessages) : ~IsNew(n)

(* C4: no step starts a navigation (a page.goto of a listing page or of a  *)
(* lobby) while state.paused is true.                                      *)
C4_NoNavigationWhilePaused == [][navs' # navs => ~paused]_vars

\* paused, with the crawl held before the lobby of a match
C4_Witness == paused /\ pc = "sleepPre" /\ matchIdx <= Len(matches)

(* C5: pausing neither skips nor repeats a step.  The navigation a step    *)
(* starts is the one that follows the last navigation in the fixed order   *)
(* page 1, its matches in order, page 2, ... whatever the pause key did;   *)
(* a crawl that leaves a pause loop goes on with the step it was held      *)
(* before; and the "all" file is the concatenation, lobby after lobby, of  *)
(* the blocks of the lobbies visited, as in a run without a key press.     *)
NextNav(nv, ms, maxp) ==
  IF nv = <<>>
  THEN <<"page", firstPageNo>>
  ELSE LET last == nv[Len(nv)]
           k == IF IsLobbyNav(last) THEN last[3] ELSE 0
       IN  IF k < Len(ms)
           THEN <<"lobby">> \o ms[k + 1].url
           ELSE <<"page", last[2] + 1>>

Held == pc \in {"sleepPage", "sleepPre", "sleepPost"}

HeldBefore ==
  CASE pc = "sleepPage" -> <<"page", i>>
    [] pc = "sleepPre" -> <<"lobby">> \o matches[matchIdx].url
    [] pc = "sleepPost" -> NextNav(navs, matches, maxPageNo)

BlockOf(n) ==
  LET nv == LobbyNavs[n]
      body == BodyLines(n, [url |-> <<nv[2], nv[3]>>, players |-> Players], allMessages[n])
  IN  IF ~Complete(n) THEN body
      ELSE IF Len(allMessages[n]) = 0
           THEN body \o <<Line(n, "placeholder", <<>>), Line(n, "blank", <<>>)>>
           ELSE Append(body, Line(n, "blank", <<>>))

C5_SinksAsUnpaused ==
  argv.allMsgOutputFile =>
    allFile = Flatten([n \in 1..Len(allMessages) |-> BlockOf(n)])

C5_StepAsUnpaused ==
  /\ navs' # navs =>
       /\ navs' = Append(navs, NextNav(navs, matches', maxPageNo'))
       /\ navs'[Len(navs')][1] = "page" => navs'[Len(navs')][2] <= maxPageNo'
       /\ Held => navs'[Len(navs')] = HeldBefore
  /\ (Held /\ pc' # pc) =>
       \/ navs' # navs
       \/ pc' \in {"closePage", "rejected"} /\ UNCHANGED <<allFile, newFile, console>>

SinkHandle(wanted, fd, file, log) ==
  /\ log \in { <<>>, <<"open">>, <<"open", "write">>,
               <<"open", "close">>, <<"open", "write", "close">> }
  /\ ~wanted => log = <<>> /\ file = <<>>
  /\ (wanted /\ pc # "start") => log # <<>>
  /\ (wanted /\ pc \in {"closePage", "done"}) => log[Len(log)] = "close"
  /\ (wanted /\ file # <<>>) => "write" \in {log[j] : j \in 1..Len(log)}
  /\ fd = "open" <=> (log # <<>> /\ log[Len(log)] # "close")
  /\ fd = "closed" <=> (log # <<>> /\ log[Len(log)] = "close")

C10_OneHandlePerSink ==
  /\ SinkHandle(argv.newMsgOutputFile, fdNewMessages, newFile, fsLog["new"])
  /\ SinkHandle(argv.allMsgOutputFile, fdAllMessages, allFile, fsLog["all"])

\* a finished run that wrote to both files
C10_Witness ==
  /\ pc = "done"
  /\ allFile # <<>> /\ newFile # <<>>
  /\ fdAllMessages = "closed" /\ fdNewMessages = "closed"

(* C6: the teardown closes each resource at most once, whatever the         *)
(* termination events: no resource receives a second close() call.         *)
C6_ClosedAtMostOnce == \A r \in Resources : closeCalls[r] <= 1

(* C7: after a termination event the page, the context and the browser are *)
(* closed in the end: once nothing of the teardown is left to run (the      *)
(* process is gone, or every handler has returned) all three are closed.   *)
C7_AllClosedAfterTermination ==
  (procState = "exited"
     \/ (handlers # <<>> /\ \A h \in 1..Len(handlers) : handlers[h].at = "done"))
  => AllClosed

(* C8: once a termination signal has been delivered, no step of the crawl  *)
(* starts a navigation.                                                    *)
Signalled == \E h \in 1..Len(handlers) : handlers[h].ev = "signal"

C8_NoNavigationAfterSignal == [][Signalled => navs' = navs]_vars

(* C9: when the crawl has completed normally, the page, the context and    *)
(* the browser are closed.                                                 *)
C9_ReleasedOnCompletion == pc = "done" => AllClosed

(* C11: once the pagination links of page 1 have been read, maxPage is the *)
(* largest of 1 and the numbers among them; it is 1 when there is no link  *)
(* or no link text is a number.                                            *)
C11_MaxPageIsLargestNumber ==
  pc = "evalMatches" =>
    LET S == {1} \cup {pageLinks[j] : j \in 1..Len(pageLinks)}
    IN  /\ maxPageNo \in S
        /\ \A y \in S : y <= maxPageNo

(* C12: the url of every match of the listing page is the href of its link *)
(* without the query string: the characters before the first '?', the      *)
(* whole href when it has no '?'; and the lobby the crawl goes to for a    *)
(* match is that url followed by "lobby".                                  *)
RECURSIVE Stripped(_)
Stripped(href) ==
  IF href = <<>> \/ Head(href) = QueryMark THEN <<>>
  ELSE <<Head(href)>> \o Stripped(Tail(href))

C12_UrlIsHrefWithoutQuery ==
  /\ Len(matches) = Len(hrefs)
  /\ \A j \in 1..Len(matches) : matches[j].url = Stripped(hrefs[j])
  /\ pc = "gotoLobby" => navs[Len(navs)] = <<"lobby">> \o Stripped(hrefs[matchIdx])

(* C13: the step that reports a lobby leaves the crawl in the sleep of      *)
(* main.ts:246 exactly when the lobby has at least one message group and   *)
(* --pause-on-new-messages-for is set; the crawl is never in that sleep     *)
(* otherwise.                                                              *)
C13_SleepState ==
  pc = "sleepNew" => (argv.pauseOnNewMessagesFor /\ Len(messageGroups) > 0)

C13_ReportStep ==
  allMessages' # allMessages =>
    (pc' = "sleepNew" <=> (argv.pauseOnNewMessagesFor /\ Len(messageGroups') > 0))

IsPageNav(x) == x[1] = "page"
PageNavs == SelectSeq(navs, IsPageNav)

C14_PagesInOrder ==
  /\ \A j \in 1..Len(PageNavs) : PageNavs[j][2] = j
  /\ Len(PageNavs) <= maxPageNo
  /\ pc = "done" => Len(PageNavs) = maxPageNo

C14_AssignedOnPageOne ==
  (maxPageNo' # maxPageNo \/ pageLinks' # pageLinks) =>
    (i = firstPageNo /\ Len(PageNavs) = 1 /\ UNCHANGED navs)

C14_PagesOneToMaxPage == [](C14_PagesInOrder) /\ [][C14_AssignedOnPageOne]_vars

\* a completed crawl of more than one page
C14_Witness ==
  /\ pc = "done" /\ maxPageNo >= 2
  /\ Len(PageNavs) = maxPageNo
  /\ pageLinks # <<>>

(* C15: in the teardown close() is called on the context only when the     *)
(* page is closed, and on the browser only when the context is closed,     *)
(* also when several exitHandler invocations overlap.                      *)
C15_PagesThenContextThenBrowser ==
  /\ closeCalls["context"] > 0 => res["page"] = "closed"
  /\ closeCalls["browser"] > 0 => res["context"] = "closed"

\* two overlapped invocations have both called page.close(); all is closed
C15_Witness ==
  /\ Len(handlers) >= 2 /\ closeCalls["page"] >= 2
  /\ closeCalls["context"] >= 2 /\ closeCalls["browser"] >= 1
  /\ AllClosed

(* C16: a close() that fails during the teardown does not end it: no        *)
(* exitHandler invocation stops at a failed close, each goes on to the     *)
(* remaining resources.                                                    *)
C16_TeardownRunsToCompletion ==
  \A h \in 1..Len(handlers) : handlers[h].at # "failed"

(* C17: once a navigation or an extraction has failed, the crawl starts no  *)
(* navigation, writes to no sink and visits no further page or match: it   *)
(* stays ended.                                                            *)
Failed == pc \in {"rejected", "crashed"}

C17_FailureEndsCrawl ==
  [][Failed => (Failed' /\ UNCHANGED <<navs, allFile, newFile, console, fsLog,
                                       allMessages, i, matches, matchIdx>>)]_vars

\* the crawl has failed after a report, with a match of the page still unvisited
C17_Witness ==
  /\ pc = "crashed"
  /\ allFile # <<>>
  /\ matchIdx < Len(matches)

(* C18: with both files configured, the lines of a lobby classified new are *)
(* the same, in the same order, in the "new" file and in the "all" file.    *)
LinesOf(f, n) ==
  LET OfLobby(line) == line.lobby = n
  IN  SelectSeq(f, OfLobby)

C18_NewBlockEqualsAllBlock ==
  (argv.newMsgOutputFile /\ argv.allMsgOutputFile) =>
    \A n \in 1..Len(allMessages) :
      IsNew(n) => LinesOf(newFile, n) = LinesOf(allFile, n)

\* both files hold the finished block of a new lobby of two groups
C18_Witness ==
  /\ argv.newMsgOutputFile /\ argv.allMsgOutputFile
  /\ \E n \in 1..Len(allMessages) :
       /\ IsNew(n) /\ Complete(n) /\ Len(allMessages[n]) = 2
       /\ Len(LinesOf(newFile, n)) > 2
       /\ LinesOf(newFile, n) = LinesOf(allFile, n)

(* C19: the finished block of a lobby in the "all" file is the header line  *)
(* with the players, the url line, then the placeholder line alone when    *)
(* the lobby has no group, else for each group in order its author line    *)
(* and for each of its messages in order a date line, a text line and a    *)
(* blank line; then one blank line.                                        *)
RECURSIVE ExpectedMessages(_, _)
ExpectedMessages(n, msgs) ==
  IF msgs = <<>> THEN <<>>
  ELSE << [lobby |-> n, kind |-> "date", val |-> <<DateLine(Head(msgs).date)>>],
          [lobby |-> n, kind |-> "text", val |-> <<Head(msgs).message>>],
          [lobby |-> n, kind |-> "blank", val |-> <<>>] >>
         \o ExpectedMessages(n, Tail(msgs))

RECURSIVE ExpectedGroups(_, _)
ExpectedGroups(n, groups) ==
  IF groups = <<>> THEN <<>>
  ELSE <<[lobby |-> n, kind |-> "author", val |-> <<Head(groups).author>>]>>
         \o ExpectedMessages(n, Head(groups).messages)
         \o ExpectedGroups(n, Tail(groups))

ExpectedBlock(n) ==
  << [lobby |-> n, kind |-> "header", val |-> Players],
     [lobby |-> n, kind |-> "url", val |-> <<LobbyNavs[n][2], LobbyNavs[n][3]>>] >>
    \o (IF allMessages[n] = <<>>
        THEN <<[lobby |-> n, kind |-> "placeholder", val |-> <<>>]>>
        ELSE ExpectedGroups(n, allMessages[n]))
    \o <<[lobby |-> n, kind |-> "blank", val |-> <<>>]>>

C19_AllBlockFormat ==
  argv.allMsgOutputFile =>
    \A n \in 1..Len(allMessages) :
      /\ Complete(n) => LinesOf(allFile, n) = ExpectedBlock(n)
      /\ Count(allFile, n, "placeholder") = IF allMessages[n] = <<>> THEN 1 ELSE 0

\* the "all" file holds the finished blocks of an empty lobby and of one of two groups
C19_Witness ==
  /\ argv.allMsgOutputFile
  /\ \E n \in 1..Len(allMessages) :
       allMessages[n] = <<>> /\ Count(allFile, n, "placeholder") = 1
  /\ \E n \in 1..Len(allMessages) :
       /\ Len(allMessages[n]) = 2 /\ Complete(n)
       /\ Count(allFile, n, "author") = 2

(* C20: the extraction takes the messages in DOM order; for each it clicks  *)
(* once when the message shows no time and not at all when it shows one,   *)
(* reads the time once, after the click, and the extracted message has the *)
(* time of that message.                                                   *)
OpsAt(g, m, op) ==
  {k \in 1..Len(domOps) : domOps[k].group = g /\ domOps[k].msg = m /\ domOps[k].op = op}

C20_RevealOncePerHiddenMessage ==
  /\ Len(messageGroups) = Len(dom)
  /\ \A g \in 1..Len(dom) :
       /\ Len(messageGroups[g].messages) = Len(dom[g].messages)
       /\ \A m \in 1..Len(dom[g].messages) :
            /\ Cardinality(OpsAt(g, m, "click")) = IF dom[g].messages[m].shown THEN 0 ELSE 1
            /\ Cardinality(OpsAt(g, m, "read")) = 1
            /\ \A c \in OpsAt(g, m, "click") : \A r \in OpsAt(g, m, "read") : c < r
            /\ messageGroups[g].messages[m].date = dom[g].messages[m].datetime
  /\ \A j \in 1..Len(domOps) : \A k \in (j + 1)..Len(domOps) :
       \/ domOps[j].group < domOps[k].group
       \/ domOps[j].group = domOps[k].group /\ domOps[j].msg <= domOps[k].msg

\* a lobby whose first message shows its time and whose second does not
C20_Witness ==
  /\ Len(dom) >= 1 /\ Len(dom[1].messages) >= 2
  /\ dom[1].messages[1].shown /\ ~dom[1].messages[2].shown
  /\ Len(domOps) >= 3
  /\ messageGroups[1].messages[2].date = dom[1].messages[2].datetime

====
